---- MODULE Spec2Model ----
(***************************************************************************)
(* The swarm topology manager of hyunlabutils (crazySAR.py): the topology  *)
(* store held by a CrazySAR object (graph, rods, flap_params, three lists  *)
(* aligned by position) and the re-rooting operation set_leader, taken     *)
(* statement group by statement group so that the states the store passes  *)
(* through during one call are visible; the packing of the configuration  *)
(* word and the push of it to every Crazyflie by send_graph, one thread    *)
(* per Crazyflie; the leader lookup and set_root. With it, each under a    *)
(* specification of its own: run_flight_test of base_flight.py and its     *)
(* mocap thread, the button callbacks of Xbox360Controller, and the        *)
(* gesture loop of AVP.                                                    *)
(***************************************************************************)
EXTENDS Integers, Sequences, FiniteSets, TLC

\* ------------------------------------------------------------- bounds
\* Number of nodes in the configuration file's graph.
NumNodes == 3
\* Number of set_leader calls that return in one behaviour.
MaxCalls == 2

\* ------------------------------------------------------------- values
\* Python's None as returned by the scans that find no entry (a node id is
\* a non-negative integer, so -1 is no node).
NONE == -1
\* None where a rod or a flap triple was expected.
NoList == <<>>

Nodes == 1..NumNodes
\* A node id that is in no configuration of the model.
AbsentNode == NumNodes + 1
\* The arguments set_leader is called with.
CallArgs == Nodes \cup {AbsentNode}

\* Rod and flap values a configuration file gives a node: flap triples are
\* (frequency, amplitude, phase) in tenths.
ParamA == [rod |-> <<1, 0, 0>>, flap |-> <<10, 2, 0>>]
ParamB == [rod |-> <<0, 1, 0>>, flap |-> <<25, 3, 5>>]
ParamZ == [rod |-> <<0, 0, 0>>, flap |-> <<0, 0, 0>>]
FollowerParams == {ParamA, ParamB}
LeaderParams == {ParamZ, ParamB}

VARIABLES
    graph,              \* self.graph: list of [node, parent]
    rods,               \* self.rods: list of [x, y, z], aligned with graph
    flap_params,        \* self.flap_params: list of [freq, amp, phase]
    leader,             \* self.leader, as the node id of that Crazyflie
    send_graph_dict,    \* the dict send_graph last handed to parallel_safe
    pc,                 \* position of the set_leader call in progress
    leader_node,        \* set_leader's argument
    prev_leader_node,   \* set_leader's locals
    temp1,
    temp2,
    temp_rod1,
    temp_flap_params1,
    orig,               \* history: the store as constructed
    pre,                \* history: the store when the last call started
    calls,              \* history: arguments of the calls that returned
    rewritten,          \* history: nodes re-pointed by the call, in order
    thread,             \* parallel_safe: position of each Crazyflie's thread
    fw,                 \* the crazysar.* parameters each Crazyflie holds
    fw0,                \* history: fw when the broadcast under way began
    is_root,            \* the crazysar.is_root parameter of each Crazyflie
    outcome,            \* how the last call ended: "returned" or "raised"
    result,             \* the value the last call returned
    erred,              \* history: Crazyflies a set_value raised for
    pushes,             \* history: _send_graph invocations of the broadcast
    root_calls,         \* history: arguments of the set_root calls
    root_hist,          \* history: is_root at the start and after each call
    enc_in,             \* node, parent and rod handed to the packing
    enc_out,            \* the word packed from enc_in
    flight,             \* run_flight_test: its position and what it has done
    xbox,               \* the Xbox360Controller object and its joystick
    avp                 \* the AVP object, its clock and its Crazyflie

\* The variables of run_flight_test, Xbox360Controller and AVP.
zvars == <<flight, xbox, avp>>

\* The variables of the push, the lookup, set_root and the packing, and
\* those of the other programs.
xvars == <<thread, fw, fw0, is_root, outcome, result, erred, pushes,
           root_calls, root_hist, enc_in, enc_out, zvars>>

\* The variables of CrazySAR.
svars == <<graph, rods, flap_params, leader, send_graph_dict, pc, leader_node,
           prev_leader_node, temp1, temp2, temp_rod1, temp_flap_params1,
           orig, pre, calls, rewritten, thread, fw, fw0, is_root, outcome,
           result, erred, pushes, root_calls, root_hist, enc_in, enc_out>>

vars == <<graph, rods, flap_params, leader, send_graph_dict, pc, leader_node,
          prev_leader_node, temp1, temp2, temp_rod1, temp_flap_params1,
          orig, pre, calls, rewritten, xvars>>

\* ------------------------------------------------------------- store scans
\* Position of the first [n, parent] entry with n = node; 0 when the scan
\* `for i, (n, parent) in enumerate(self.graph)` finds none.
IndexOf(g, node) ==
    IF \E i \in 1..Len(g) : g[i][1] = node
    THEN CHOOSE i \in 1..Len(g) :
             g[i][1] = node /\ \A j \in 1..(i - 1) : g[j][1] # node
    ELSE 0

_find_leader(g) ==
    IF \E i \in 1..Len(g) : g[i][1] = g[i][2]
    THEN LET i == CHOOSE k \in 1..Len(g) :
                      g[k][1] = g[k][2] /\ \A j \in 1..(k - 1) : g[j][1] # g[j][2]
         IN g[i][1]
    ELSE NONE

_get_parent(g, node) ==
    IF IndexOf(g, node) = 0 THEN NONE ELSE g[IndexOf(g, node)][2]

\* _set_parent with the scan comparing against the new parent instead of
\* the node.
_set_parent_scans_for_new_parent(g, node, new_parent) ==
    IF IndexOf(g, new_parent) = 0 THEN g
    ELSE [g EXCEPT ![IndexOf(g, new_parent)][2] = new_parent]

_set_parent(g, node, new_parent) ==
    IF IndexOf(g, node) = 0 THEN g
    ELSE [g EXCEPT ![IndexOf(g, node)][2] = new_parent]

_get_rod(g, r, node) ==
    IF IndexOf(g, node) = 0 THEN NoList ELSE r[IndexOf(g, node)]

\* _set_and_flip_rod storing the rod as given, without the negation.
_set_and_flip_rod_copies(g, r, node, new_rod) ==
    IF IndexOf(g, node) = 0 THEN r
    ELSE [r EXCEPT ![IndexOf(g, node)] = new_rod]

\* _set_and_flip_rod taking the node id for the position in the list.
_set_and_flip_rod_at_id(g, r, node, new_rod) ==
    IF node \notin 1..Len(r) THEN r
    ELSE [r EXCEPT ![node] = [k \in 1..Len(new_rod) |-> -new_rod[k]]]

_set_and_flip_rod(g, r, node, new_rod) ==
    IF IndexOf(g, node) = 0 THEN r
    ELSE [r EXCEPT ![IndexOf(g, node)] = [k \in 1..Len(new_rod) |-> -new_rod[k]]]

_get_flap_params(g, f, node) ==
    IF IndexOf(g, node) = 0 THEN NoList ELSE f[IndexOf(g, node)]

\* _set_and_flip_flap_params negating the phase instead of the amplitude.
_set_and_flip_flap_params_flips_phase(g, f, node, new_flap_params) ==
    IF IndexOf(g, node) = 0 THEN f
    ELSE [f EXCEPT ![IndexOf(g, node)] =
              <<new_flap_params[1], new_flap_params[2], -new_flap_params[3]>>]

_set_and_flip_flap_params(g, f, node, new_flap_params) ==
    IF IndexOf(g, node) = 0 THEN f
    ELSE [f EXCEPT ![IndexOf(g, node)] =
              <<new_flap_params[1], -new_flap_params[2], new_flap_params[3]>>]

\* ------------------------------------------------------------- send_graph
\* The arithmetic of lines 143-149 is that of NumPy before 2.0, the one
\* under which send_graph packs a word at all: np.uint8 and np.int8 wrap to
\* 8 bits, and a NumPy scalar combined with a Python int gives an int64, so
\* the shifts lose nothing. (From NumPy 2.0 on, np.int8(x) & 0xFF raises
\* OverflowError for every x.)

\* The word with the node id in the high half of byte 0 and the parent id
\* in the low half.
ConfigWord_ids_exchanged(node, parent, rod) ==
    << ((parent % 256) % 16) + ((node % 256) % 16) * 16,
       rod[1] % 256,
       rod[2] % 256,
       rod[3] % 256 >>

\* The packed uint32 of one entry, as its four bytes from the least
\* significant up (TLC's integers are 32-bit signed, so the word is not
\* held as one number): byte 0 is the uint8 node id masked to
\* 4 bits with the masked parent id shifted by 4, bytes 1-3 are the int8
\* rod components masked to 8 bits.
ConfigWord(node, parent, rod) ==
    << ((node % 256) % 16) + ((parent % 256) % 16) * 16,
       rod[1] % 256,
       rod[2] % 256,
       rod[3] % 256 >>

\* The dict with every entry carrying the rod of the first position.
send_graph_first_rod(g, r, f) ==
    [n \in {g[i][1] : i \in 1..Len(g)} |->
        LET i == CHOOSE k \in 1..Len(g) :
                     g[k][1] = n /\ \A j \in (k + 1)..Len(g) : g[j][1] # n
        IN <<ConfigWord(g[i][1], g[i][2], r[1]), f[i]>>]

\* The dict send_graph builds: uri of node -> [config_params, flap_params].
\* A later entry for the same node replaces an earlier one.
send_graph(g, r, f) ==
    [n \in {g[i][1] : i \in 1..Len(g)} |->
        LET i == CHOOSE k \in 1..Len(g) :
                     g[k][1] = n /\ \A j \in (k + 1)..Len(g) : g[j][1] # n
        IN <<ConfigWord(g[i][1], g[i][2], r[i]), f[i]>>]

\* ------------------------------------------------------------- topologies
NodesOf(g) == {g[i][1] : i \in 1..Len(g)}

SelfParents(g) == {g[i][1] : i \in {k \in 1..Len(g) : g[k][1] = g[k][2]}}

\* The node reached from n after k parent steps.
RECURSIVE Ancestor(_, _, _)
Ancestor(g, n, k) == IF k = 0 THEN n ELSE Ancestor(g, _get_parent(g, n), k - 1)

\* Exactly one self-parenting node, reached from every node by following
\* parent pointers.
ValidTopology(g) ==
    /\ Cardinality(SelfParents(g)) = 1
    /\ \A n \in NodesOf(g) : Ancestor(g, n, Len(g)) \in SelfParents(g)

\* The nodes from n up to the leader, n first.
RECURSIVE PathToLeader(_, _)
PathToLeader(g, n) ==
    IF _get_parent(g, n) = n \/ _get_parent(g, n) = NONE THEN <<n>>
    ELSE <<n>> \o PathToLeader(g, _get_parent(g, n))

Snapshot == [graph |-> graph, rods |-> rods, flap_params |-> flap_params]

\* ------------------------------------------------------------- construction
\* Position i of the lists holds node NodeAt(i): the file lists the nodes
\* from the highest id down, so that positions and ids differ.
NodeAt(i) == NumNodes + 1 - i

ParentMaps == {p \in [Nodes -> Nodes] :
                  ValidTopology([i \in 1..NumNodes |-> <<NodeAt(i), p[NodeAt(i)]>>])}

\* run_flight_test has not been called and no Xbox360Controller and no AVP
\* has been constructed.
NoFlight == [pc |-> "off"]
NoXbox == [is_open |-> FALSE]
NoAVP == [is_open |-> FALSE]

InitOthers ==
    /\ flight = NoFlight
    /\ xbox = NoXbox
    /\ avp = NoAVP

\* No thread runs, no Crazyflie has been sent a crazysar parameter, no call
\* has been made.
InitPush ==
    /\ thread = [n \in Nodes |-> "none"]
    /\ fw = [n \in Nodes |-> [config_params |-> NoList, flap_freq |-> NONE,
                               flap_amp |-> NONE, flap_phase |-> NONE]]
    /\ outcome = "none"
    /\ result = NONE
    /\ erred = {}
    /\ pushes = [n \in Nodes |-> <<>>]
    /\ fw0 = fw

InitRoot ==
    /\ is_root = [n \in Nodes |-> 0]
    /\ root_calls = <<>>
    /\ root_hist = <<>>

InitEnc ==
    /\ enc_in = <<>>
    /\ enc_out = NoList

InitExtras == InitPush /\ InitRoot /\ InitEnc

\* No call of set_leader is in progress and none has been made; the
\* histories start from the store as constructed.
InitIdle ==
    /\ pc = "idle"
    /\ leader_node = NONE
    /\ prev_leader_node = NONE
    /\ temp1 = NONE
    /\ temp2 = NONE
    /\ temp_rod1 = NoList
    /\ temp_flap_params1 = NoList
    /\ orig = Snapshot
    /\ pre = Snapshot
    /\ calls = <<>>
    /\ rewritten = <<>>

Init ==
    /\ InitExtras
    /\ \E p \in ParentMaps :
           graph = [i \in 1..NumNodes |-> <<NodeAt(i), p[NodeAt(i)]>>]
    /\ \E prm \in [Nodes -> FollowerParams \cup LeaderParams] :
           /\ \A n \in Nodes :
                  IF _get_parent(graph, n) = n
                  THEN prm[n] \in LeaderParams
                  ELSE prm[n] \in FollowerParams
           /\ rods = [i \in 1..NumNodes |-> prm[NodeAt(i)].rod]
           /\ flap_params = [i \in 1..NumNodes |-> prm[NodeAt(i)].flap]
    /\ leader = _find_leader(graph)
    /\ send_graph_dict = <<>>
    /\ InitIdle
    /\ InitOthers

\* ------------------------------------------------------------- set_leader
\* Line 162 with the early return never taken.
AlreadyLeader_never(node, prev) == FALSE

\* The test of line 162.
AlreadyLeader(node, prev) == node = prev

\* Lines 160-166: find the leader; return at once when the argument is the
\* leader, otherwise remember its parent and make it self-parenting.
SetLeaderStart(n) ==
    /\ pc = "idle"
    /\ Len(calls) < MaxCalls
    /\ pre' = Snapshot
    /\ rewritten' = <<>>
    /\ UNCHANGED xvars
    /\ IF AlreadyLeader(n, _find_leader(graph))
       THEN /\ calls' = Append(calls, n)
            /\ UNCHANGED <<graph, rods, flap_params, leader, send_graph_dict,
                           pc, leader_node, prev_leader_node, temp1, temp2,
                           temp_rod1, temp_flap_params1, orig>>
       ELSE /\ leader_node' = n
            /\ prev_leader_node' = _find_leader(graph)
            /\ temp1' = _get_parent(graph, n)
            /\ graph' = _set_parent(graph, n, n)
            /\ pc' = "first"
            /\ UNCHANGED <<rods, flap_params, leader, send_graph_dict, temp2,
                           temp_rod1, temp_flap_params1, orig, calls>>

\* Lines 168-178: re-point the new leader's former parent at it and give
\* it the flipped rod and flap of the new leader.
SetLeaderFirst ==
    /\ pc = "first"
    /\ temp2' = _get_parent(graph, temp1)
    /\ graph' = _set_parent(graph, temp1, leader_node)
    /\ temp_rod1' = _get_rod(graph, rods, temp1)
    /\ rods' = _set_and_flip_rod(graph, rods, temp1,
                                 _get_rod(graph, rods, leader_node))
    /\ temp_flap_params1' = _get_flap_params(graph, flap_params, temp1)
    /\ flap_params' = _set_and_flip_flap_params(graph, flap_params, temp1,
                          _get_flap_params(graph, flap_params, leader_node))
    /\ rewritten' = IF IndexOf(graph, temp1) = 0 THEN rewritten
                    ELSE Append(rewritten, temp1)
    /\ pc' = "loop"
    /\ UNCHANGED <<leader, send_graph_dict, leader_node, prev_leader_node,
                   temp1, orig, pre, calls, xvars>>

\* The test of the while loop looking one node ahead, so that the walk
\* ends before the old leader is re-pointed.
WalkContinues_stops_at_child == temp2 # prev_leader_node

\* The test of the while loop, line 180.
WalkContinues == temp1 # prev_leader_node

\* Lines 181-193, the body of the loop: line 182 re-points `node` at
\* `new_parent`; lines 184-190 give temp2 the flipped `new_rod` and
\* `new_flap_params` and keep what temp2 held for the next iteration.
WalkStep(node, new_parent, new_rod, new_flap_params) ==
    /\ graph' = _set_parent(graph, node, new_parent)
    /\ rods' = _set_and_flip_rod(graph, rods, temp2, new_rod)
    /\ temp_rod1' = _get_rod(graph, rods, temp2)
    /\ flap_params' = _set_and_flip_flap_params(graph, flap_params, temp2,
                                                new_flap_params)
    /\ temp_flap_params1' = _get_flap_params(graph, flap_params, temp2)
    /\ temp1' = temp2
    /\ temp2' = _get_parent(graph, temp2)
    /\ rewritten' = IF IndexOf(graph, temp2) = 0 THEN rewritten
                    ELSE Append(rewritten, temp2)
    /\ UNCHANGED <<leader, send_graph_dict, pc, leader_node, prev_leader_node,
                   orig, pre, calls, xvars>>

\* The body with the arguments of line 182 exchanged.
SetLeaderLoop_swapped_parent ==
    /\ pc = "loop"
    /\ WalkContinues
    /\ WalkStep(temp1, temp2, temp_rod1, temp_flap_params1)

\* The body reading temp1's rod and flap from the store, where they have
\* been overwritten already, instead of the buffered values.
SetLeaderLoop_unbuffered ==
    /\ pc = "loop"
    /\ WalkContinues
    /\ WalkStep(temp2, temp1, _get_rod(graph, rods, temp1),
                _get_flap_params(graph, flap_params, temp1))

\* Lines 180-193: one iteration of the while loop.
SetLeaderLoop ==
    /\ pc = "loop"
    /\ WalkContinues
    /\ WalkStep(temp2, temp1, temp_rod1, temp_flap_params1)

\* Lines 195-198 when every push succeeds, taken as one step with the
\* Crazyflies left out: the loop has ended; look the leader up again,
\* build the dict of send_graph and return (the locals go away). The
\* threads of the push and their failures are followed in SpecSession.
SetLeaderEnd ==
    /\ pc = "loop"
    /\ ~WalkContinues
    /\ leader' = _find_leader(graph)
    /\ send_graph_dict' = send_graph(graph, rods, flap_params)
    /\ calls' = Append(calls, leader_node)
    /\ pc' = "idle"
    /\ leader_node' = NONE
    /\ prev_leader_node' = NONE
    /\ temp1' = NONE
    /\ temp2' = NONE
    /\ temp_rod1' = NoList
    /\ temp_flap_params1' = NoList
    /\ UNCHANGED <<graph, rods, flap_params, orig, pre, rewritten, xvars>>

Next ==
    \/ \E n \in CallArgs : SetLeaderStart(n)
    \/ SetLeaderFirst
    \/ SetLeaderLoop
    \/ SetLeaderEnd

Spec == Init /\ [][Next]_vars

\* ------------------------------------------------------------- the packing alone
\* Node and parent ids and rod components the packing is tried on: the
\* 4-bit and signed-byte ranges, their ends and the values just outside.
EncIds == 0..17
EncRodComponents == {-129, -128, -1, 0, 127, 128}
EncInputs == {<<n, p, <<x, y, z>>>> : n \in EncIds, p \in EncIds,
              x \in EncRodComponents, y \in EncRodComponents,
              z \in EncRodComponents}

\* A store with no node; the packing does not read it.
InitEncode ==
    /\ graph = <<>>
    /\ rods = <<>>
    /\ flap_params = <<>>
    /\ leader = NONE
    /\ send_graph_dict = <<>>
    /\ InitIdle
    /\ InitOthers
    /\ InitPush
    /\ InitRoot
    /\ enc_in \in EncInputs
    /\ enc_out = NoList

\* Lines 143-149 for one entry: the expression has no range check and no
\* raise, it yields a word for every input.
Encode ==
    /\ outcome = "none"
    /\ enc_out' = ConfigWord(enc_in[1], enc_in[2], enc_in[3])
    /\ outcome' = "returned"
    /\ UNCHANGED <<zvars, fw0, graph, rods, flap_params, leader, send_graph_dict, pc,
                   leader_node, prev_leader_node, temp1, temp2, temp_rod1,
                   temp_flap_params1, orig, pre, calls, rewritten, thread, fw,
                   is_root, result, erred, pushes, root_calls, root_hist,
                   enc_in>>

NextEncode == Encode

SpecEncode == InitEncode /\ [][NextEncode]_vars

\* ------------------------------------------------------------- the push
\* send_graph hands _send_graph and its dict to Swarm.parallel_safe (line
\* 154), which is cflib's: it starts one thread per Crazyflie of the swarm,
\* each calling _send_graph(scf, config_params, flap_params) with the dict's
\* entry for its uri and reporting an exception the call raises, joins all
\* the threads, and then raises if any thread reported an exception.
\* cf.param.set_value either hands the value to the Crazyflie or raises, as
\* run_flight_test of this repository expects of it.

\* The parameters _send_graph sets, in the order of lines 130-134.
PushFields == <<"config_params", "flap_freq", "flap_amp", "flap_phase">>
PushPositions == {PushFields[k] : k \in 1..Len(PushFields)}

\* The value _send_graph sets parameter f to, from the dict entry `args`
\* ([config_params, flap_params]) its thread was started with.
PushValue(args, f) ==
    CASE f = "config_params" -> args[1]
      [] f = "flap_freq" -> args[2][1]
      [] f = "flap_amp" -> args[2][2]
      [] f = "flap_phase" -> args[2][3]

\* Where _send_graph stands after setting parameter f.
AfterField(f) ==
    CASE f = "config_params" -> "flap_freq"
      [] f = "flap_freq" -> "flap_amp"
      [] f = "flap_amp" -> "flap_phase"
      [] f = "flap_phase" -> "done"

\* Lines 140-154 up to the call of parallel_safe: the dict is built from
\* the store as it is now; no thread runs yet.
EnterSendGraph ==
    /\ send_graph_dict' = send_graph(graph, rods, flap_params)
    /\ thread' = [n \in Nodes |-> "none"]
    /\ erred' = {}
    /\ pushes' = [n \in Nodes |-> <<>>]
    /\ fw0' = fw
    /\ outcome' = "none"
    /\ result' = NONE
    /\ pc' = "send"

\* send_graph called on its own, between calls of set_leader.
SendGraphCall ==
    /\ pc = "idle"
    /\ outcome = "none"
    /\ EnterSendGraph
    /\ UNCHANGED <<zvars, graph, rods, flap_params, leader, leader_node,
                   prev_leader_node, temp1, temp2, temp_rod1,
                   temp_flap_params1, orig, pre, calls, rewritten, fw,
                   is_root, root_calls, root_hist, enc_in, enc_out>>

\* parallel_safe starting no further thread once one has reported an error.
ParallelSafeStart_until_error(n) ==
    /\ pc = "send"
    /\ erred = {}
    /\ n \in DOMAIN send_graph_dict
    /\ thread[n] = "none"
    /\ thread' = [thread EXCEPT ![n] = PushFields[1]]
    /\ pushes' = [pushes EXCEPT ![n] = Append(@, send_graph_dict[n])]
    /\ UNCHANGED <<zvars, fw0, graph, rods, flap_params, leader, send_graph_dict, pc,
                   leader_node, prev_leader_node, temp1, temp2, temp_rod1,
                   temp_flap_params1, orig, pre, calls, rewritten, fw,
                   is_root, outcome, result, erred, root_calls, root_hist,
                   enc_in, enc_out>>

\* parallel_safe starts the thread of Crazyflie n with the dict's entry for
\* it; the threads started earlier may be running already.
ParallelSafeStart(n) ==
    /\ pc = "send"
    /\ n \in DOMAIN send_graph_dict
    /\ thread[n] = "none"
    /\ thread' = [thread EXCEPT ![n] = PushFields[1]]
    /\ pushes' = [pushes EXCEPT ![n] = Append(@, send_graph_dict[n])]
    /\ UNCHANGED <<zvars, fw0, graph, rods, flap_params, leader, send_graph_dict, pc,
                   leader_node, prev_leader_node, temp1, temp2, temp_rod1,
                   temp_flap_params1, orig, pre, calls, rewritten, fw,
                   is_root, outcome, result, erred, root_calls, root_hist,
                   enc_in, enc_out>>

\* _send_graph, lines 130-134: the next set_value of Crazyflie n's thread
\* hands its value to the Crazyflie.
SendGraphWrite(n) ==
    /\ thread[n] \in PushPositions
    /\ fw' = [fw EXCEPT ![n][thread[n]] = PushValue(pushes[n][1], thread[n])]
    /\ thread' = [thread EXCEPT ![n] = AfterField(thread[n])]
    /\ UNCHANGED <<zvars, fw0, graph, rods, flap_params, leader, send_graph_dict, pc,
                   leader_node, prev_leader_node, temp1, temp2, temp_rod1,
                   temp_flap_params1, orig, pre, calls, rewritten, is_root,
                   outcome, result, erred, pushes, root_calls, root_hist,
                   enc_in, enc_out>>

\* _send_graph going on to its next set_value when one has raised.
SendGraphRaise_goes_on(n) ==
    /\ thread[n] \in PushPositions
    /\ thread' = [thread EXCEPT ![n] = AfterField(thread[n])]
    /\ erred' = erred \cup {n}
    /\ UNCHANGED <<zvars, fw0, graph, rods, flap_params, leader, send_graph_dict, pc,
                   leader_node, prev_leader_node, temp1, temp2, temp_rod1,
                   temp_flap_params1, orig, pre, calls, rewritten, fw,
                   is_root, outcome, result, pushes, root_calls, root_hist,
                   enc_in, enc_out>>

\* _send_graph, lines 130-134: the next set_value of Crazyflie n's thread
\* raises; the thread ends there and its exception is reported.
SendGraphRaise(n) ==
    /\ thread[n] \in PushPositions
    /\ thread' = [thread EXCEPT ![n] = "failed"]
    /\ erred' = erred \cup {n}
    /\ UNCHANGED <<zvars, fw0, graph, rods, flap_params, leader, send_graph_dict, pc,
                   leader_node, prev_leader_node, temp1, temp2, temp_rod1,
                   temp_flap_params1, orig, pre, calls, rewritten, fw,
                   is_root, outcome, result, pushes, root_calls, root_hist,
                   enc_in, enc_out>>

\* The join giving up as soon as one thread has reported an error.
ThreadsJoined_or_error ==
    \/ erred # {}
    \/ \A n \in DOMAIN send_graph_dict : thread[n] \in {"done", "failed"}

\* parallel_safe has joined every thread.
ThreadsJoined ==
    \A n \in DOMAIN send_graph_dict : thread[n] \in {"done", "failed"}

\* Line 154 after the join: parallel_safe raises when a thread reported an
\* error, and the exception leaves send_graph (and set_leader, when it made
\* the call) to the caller; otherwise send_graph returns None, and so does
\* set_leader, whose locals go away.
ParallelSafeJoin ==
    /\ pc = "send"
    /\ ThreadsJoined
    /\ IF erred # {}
       THEN /\ outcome' = "raised"
            /\ pc' = "raised"
            /\ UNCHANGED <<result, calls, leader_node, prev_leader_node,
                           temp1, temp2, temp_rod1, temp_flap_params1>>
       ELSE /\ outcome' = "returned"
            /\ result' = NONE
            /\ pc' = "idle"
            /\ calls' = IF leader_node = NONE THEN calls
                        ELSE Append(calls, leader_node)
            /\ leader_node' = NONE
            /\ prev_leader_node' = NONE
            /\ temp1' = NONE
            /\ temp2' = NONE
            /\ temp_rod1' = NoList
            /\ temp_flap_params1' = NoList
    /\ UNCHANGED <<zvars, fw0, graph, rods, flap_params, leader, send_graph_dict, orig,
                   pre, rewritten, thread, fw, is_root, erred, pushes,
                   root_calls, root_hist, enc_in, enc_out>>

\* The store of the specification's scenario, {1:1, 2:1, 3:2} with rod and
\* flap A for the even nodes and B for the odd ones, carried on as a chain
\* to the number of nodes, and the store with every node under node 1.
ScenarioParents == { [n \in Nodes |-> IF n = 1 THEN 1 ELSE n - 1],
                     [n \in Nodes |-> 1] }
ScenarioParam(n) == IF n = 1 THEN ParamZ ELSE IF n % 2 = 0 THEN ParamA ELSE ParamB

InitScenario ==
    /\ \E p \in ScenarioParents :
           graph = [i \in 1..NumNodes |-> <<NodeAt(i), p[NodeAt(i)]>>]
    /\ rods = [i \in 1..NumNodes |-> ScenarioParam(NodeAt(i)).rod]
    /\ flap_params = [i \in 1..NumNodes |-> ScenarioParam(NodeAt(i)).flap]
    /\ leader = _find_leader(graph)
    /\ send_graph_dict = <<>>
    /\ InitIdle
    /\ InitOthers
    /\ InitExtras

NextBroadcast ==
    \/ SendGraphCall
    \/ \E n \in Nodes : ParallelSafeStart(n)
    \/ \E n \in Nodes : SendGraphWrite(n)
    \/ \E n \in Nodes : SendGraphRaise(n)
    \/ ParallelSafeJoin

SpecBroadcast == InitScenario /\ [][NextBroadcast]_vars

\* ------------------------------------------------------------- a session
\* Line 198 reached from inside the walk, whether or not the loop of line
\* 180 has ended.
SetLeaderSend_skips_walk ==
    /\ pc = "loop"
    /\ leader' = _find_leader(graph)
    /\ EnterSendGraph
    /\ UNCHANGED <<zvars, graph, rods, flap_params, leader_node, prev_leader_node,
                   temp1, temp2, temp_rod1, temp_flap_params1, orig, pre,
                   calls, rewritten, fw, is_root, root_calls, root_hist,
                   enc_in, enc_out>>

\* Lines 195-198 up to the call of parallel_safe: the loop has ended; look
\* the leader up again and build the dict of send_graph. set_leader returns
\* in ParallelSafeJoin, when the pushes have ended.
SetLeaderSend ==
    /\ pc = "loop"
    /\ ~WalkContinues
    /\ leader' = _find_leader(graph)
    /\ EnterSendGraph
    /\ UNCHANGED <<zvars, graph, rods, flap_params, leader_node, prev_leader_node,
                   temp1, temp2, temp_rod1, temp_flap_params1, orig, pre,
                   calls, rewritten, fw, is_root, root_calls, root_hist,
                   enc_in, enc_out>>

\* A session from `with CrazySAR(...)` on: __init__, __enter__ and init
\* (lines 17-66, 97-124) set stabilizer.estimator, stabilizer.controller,
\* crazysar.kR_geo, kv_geo and disable_props and nothing of the topology,
\* so the Crazyflies start with config_params and the flap parameters
\* unset; then set_leader is called on nodes of the topology, each call
\* followed through its pushes.
NextSession ==
    \/ \E n \in Nodes : SetLeaderStart(n)
    \/ SetLeaderFirst
    \/ SetLeaderLoop
    \/ SetLeaderSend
    \/ \E n \in Nodes : ParallelSafeStart(n)
    \/ \E n \in Nodes : SendGraphWrite(n)
    \/ \E n \in Nodes : SendGraphRaise(n)
    \/ ParallelSafeJoin

\* The session starts from the store of the specification's scenario.
InitSession ==
    /\ InitScenario
    /\ \A n \in Nodes \ {1} : _get_parent(graph, n) = n - 1

SpecSession == InitSession /\ [][NextSession]_vars

\* ------------------------------------------------------------- set_root
\* Calls of set_root followed in one behaviour.
MaxRootCalls == 3

\* The values of crazysar.is_root the calls start from: the flag is clear
\* or set.
FlagValues == {0, 1}

\* A flag that set_root sets whatever it reads.
ToggledFlag_always_set(v) == 1

\* Lines 206-209: the value set_root writes when it has read v.
ToggledFlag(v) == IF v = 0 THEN 1 ELSE 0

\* set_root(n), n a node of the swarm: read crazysar.is_root of its
\* Crazyflie and write the other value.
SetRoot(n) ==
    /\ pc = "idle"
    /\ Len(root_calls) < MaxRootCalls
    /\ n \in NodesOf(graph)
    /\ is_root' = [is_root EXCEPT ![n] = ToggledFlag(is_root[n])]
    /\ root_calls' = Append(root_calls, n)
    /\ root_hist' = Append(root_hist, is_root)
    /\ outcome' = "returned"
    /\ UNCHANGED <<zvars, fw0, graph, rods, flap_params, leader, send_graph_dict, pc,
                   leader_node, prev_leader_node, temp1, temp2, temp_rod1,
                   temp_flap_params1, orig, pre, calls, rewritten, thread,
                   fw, result, erred, pushes, enc_in, enc_out>>

\* set_root(n), n no node of the swarm: self._cfs has no such uri and line
\* 204 raises KeyError before anything is read or written.
SetRootAbsent ==
    /\ pc = "idle"
    /\ Len(root_calls) < MaxRootCalls
    /\ AbsentNode \notin NodesOf(graph)
    /\ outcome' = "raised"
    /\ pc' = "raised"
    /\ UNCHANGED <<zvars, fw0, graph, rods, flap_params, leader, send_graph_dict,
                   leader_node, prev_leader_node, temp1, temp2, temp_rod1,
                   temp_flap_params1, orig, pre, calls, rewritten, thread,
                   fw, is_root, result, erred, pushes, root_calls, root_hist,
                   enc_in, enc_out>>

InitRootFlags ==
    /\ \E p \in ScenarioParents :
           graph = [i \in 1..NumNodes |-> <<NodeAt(i), p[NodeAt(i)]>>]
    /\ rods = [i \in 1..NumNodes |-> ScenarioParam(NodeAt(i)).rod]
    /\ flap_params = [i \in 1..NumNodes |-> ScenarioParam(NodeAt(i)).flap]
    /\ leader = _find_leader(graph)
    /\ send_graph_dict = <<>>
    /\ InitIdle
    /\ InitOthers
    /\ InitPush
    /\ InitEnc
    /\ is_root \in [Nodes -> FlagValues]
    /\ root_calls = <<>>
    /\ root_hist = <<>>

NextRoot ==
    \/ \E n \in Nodes : SetRoot(n)
    \/ SetRootAbsent

SpecRoot == InitRootFlags /\ [][NextRoot]_vars

\* ------------------------------------------------------------- the leader lookup
\* What the configuration file can hold as graph: every node of the swarm
\* once, from the highest id down or from the lowest up, each with any
\* node as parent; the file is loaded as it is (lines 19-21), so graphs
\* with no self-parenting node or with several are among them.
FileOrders == { [i \in 1..NumNodes |-> NodeAt(i)], [i \in 1..NumNodes |-> i] }
FileGraphs ==
    { [i \in 1..NumNodes |-> <<o[i], p[o[i]]>>] :
          o \in FileOrders, p \in [Nodes -> Nodes] }

InitLeader ==
    /\ graph \in FileGraphs
    /\ rods = [i \in 1..NumNodes |-> ScenarioParam(graph[i][1]).rod]
    /\ flap_params = [i \in 1..NumNodes |-> ScenarioParam(graph[i][1]).flap]
    /\ leader = NONE
    /\ send_graph_dict = <<>>
    /\ InitIdle
    /\ InitOthers
    /\ InitExtras

\* Lines 211-214: _find_leader is called on the store; it returns the
\* node of the first self-parenting entry, or None when the loop ends
\* without one. It has no raise and no assignment.
FindLeader ==
    /\ outcome = "none"
    /\ result' = _find_leader(graph)
    /\ outcome' = "returned"
    /\ UNCHANGED <<zvars, fw0, graph, rods, flap_params, leader, send_graph_dict, pc,
                   leader_node, prev_leader_node, temp1, temp2, temp_rod1,
                   temp_flap_params1, orig, pre, calls, rewritten, thread,
                   fw, is_root, erred, pushes, root_calls, root_hist,
                   enc_in, enc_out>>

NextLeader == FindLeader

SpecLeader == InitLeader /\ [][NextLeader]_vars

\* ------------------------------------------------------------- run_flight_test
\* Entries of params, log configurations of log_variables and mocap frames
\* followed in one behaviour.
MaxParams == 2
MaxLogConfigs == 2
MaxFrames == 2

\* The number of parameters of user_function: two and three are the
\* signatures run_flight_test calls, with four it calls nothing.
ParamCounts == {2, 3, 4}

\* rigid_body_name is a str (MocapThread) or a list (MocapThread2).
BodyTypes == {"str", "list"}

\* What the user function can end with.
UserEndings == {"returned", "KeyboardInterrupt", "Exception"}

\* A try of line 276 with the handler of KeyboardInterrupt left out.
Caught_only_Exception(e) == e = "Exception"

\* Lines 286 and 290: the exceptions the try of line 276 has handlers for.
Caught(e) == e \in {"KeyboardInterrupt", "Exception"}

\* A store with no node; run_flight_test has no CrazySAR.
InitFlight ==
    /\ graph = <<>>
    /\ rods = <<>>
    /\ flap_params = <<>>
    /\ leader = NONE
    /\ send_graph_dict = <<>>
    /\ InitIdle
    /\ InitExtras
    /\ InitOthers

\* Lines 195-232: the signature is read, the run folder made, the mocap
\* thread constructed, which starts it (mocap_thread.py line 21), the link
\* opened and the thread given the Crazyflie.
FlightCall ==
    /\ flight.pc = "off"
    /\ \E c \in ParamCounts, b \in BodyTypes, np \in 0..MaxParams,
          nl \in 0..MaxLogConfigs :
           flight' = [pc |-> "params", param_count |-> c, body |-> b,
                      params_left |-> np, logs_left |-> nl,
                      _stay_open |-> TRUE, alive |-> TRUE, frames |-> 0,
                      user |-> "none", sent |-> <<>>, ended |-> "no"]
    /\ UNCHANGED <<svars, xbox, avp>>

\* Lines 234-236: the next entry of params is set.
FlightSetParam ==
    /\ flight.pc = "params"
    /\ flight.params_left > 0
    /\ flight' = [flight EXCEPT !.params_left = @ - 1]
    /\ UNCHANGED <<svars, xbox, avp>>

\* Lines 237-239: set_value raises; the error is logged and run_flight_test
\* returns from inside the with block.
FlightSetParamRaises ==
    /\ flight.pc = "params"
    /\ flight.params_left > 0
    /\ flight' = [flight EXCEPT !.pc = "end", !.ended = "returned"]
    /\ UNCHANGED <<svars, xbox, avp>>

\* Line 241, after the last entry of params.
FlightResetEstimator ==
    /\ flight.pc = "params"
    /\ flight.params_left = 0
    /\ flight' = [flight EXCEPT !.pc = "logs"]
    /\ UNCHANGED <<svars, xbox, avp>>

\* Lines 245-248: the next log configuration is added.
FlightAddLogConfig ==
    /\ flight.pc = "logs"
    /\ flight.logs_left > 0
    /\ flight' = [flight EXCEPT !.logs_left = @ - 1]
    /\ UNCHANGED <<svars, xbox, avp>>

\* Lines 249 and 255-274: logging is started, the battery log and the
\* console callback are set up.
FlightStartLogging ==
    /\ flight.pc = "logs"
    /\ flight.logs_left = 0
    /\ flight' = [flight EXCEPT !.pc = "try"]
    /\ UNCHANGED <<svars, xbox, avp>>

\* Lines 250-252: add_log_config or start raises; the error is logged and
\* run_flight_test returns from inside the with block.
FlightLogSetupRaises ==
    /\ flight.pc = "logs"
    /\ flight' = [flight EXCEPT !.pc = "end", !.ended = "returned"]
    /\ UNCHANGED <<svars, xbox, avp>>

\* Lines 276-284: the user function is called when it takes two or three
\* parameters; otherwise the try block ends with nothing called.
FlightUserStart ==
    /\ flight.pc = "try"
    /\ flight' = IF flight.param_count \in {2, 3}
                 THEN [flight EXCEPT !.pc = "user", !.user = "started"]
                 ELSE [flight EXCEPT !.pc = "else"]
    /\ UNCHANGED <<svars, xbox, avp>>

\* The user function ends: it returns (line 300 follows) or raises, and an
\* exception goes to its handler (lines 286, 290) or, with none for it,
\* leaves run_flight_test.
FlightUserEnds ==
    /\ flight.pc = "user"
    /\ \E e \in UserEndings :
           flight' = IF e = "returned"
                     THEN [flight EXCEPT !.pc = "else", !.user = e]
                     ELSE IF Caught(e)
                     THEN [flight EXCEPT !.pc = "except", !.user = e]
                     ELSE [flight EXCEPT !.pc = "end", !.user = e,
                                         !.ended = "raised"]
    /\ UNCHANGED <<svars, xbox, avp>>

\* Lines 288 and 298: e_stop.
FlightEStop ==
    /\ flight.pc = "except"
    /\ flight' = [flight EXCEPT !.pc = "usd", !.sent = Append(@, "e_stop")]
    /\ UNCHANGED <<svars, xbox, avp>>

\* Line 302: stop.
FlightStop ==
    /\ flight.pc = "else"
    /\ flight' = [flight EXCEPT !.pc = "disarm", !.sent = Append(@, "stop")]
    /\ UNCHANGED <<svars, xbox, avp>>

\* Line 303: disarm.
FlightDisarm ==
    /\ flight.pc = "disarm"
    /\ flight' = [flight EXCEPT !.pc = "usd", !.sent = Append(@, "disarm")]
    /\ UNCHANGED <<svars, xbox, avp>>

\* Lines 306-309: usd.logging is set to 0.
FlightUsdLoggingOff ==
    /\ flight.pc = "usd"
    /\ flight' = [flight EXCEPT !.pc = "csv",
                                !.sent = Append(@, "usd.logging=0")]
    /\ UNCHANGED <<svars, xbox, avp>>

\* Lines 312-313: the logs are written; the with block ends.
FlightWriteCsv ==
    /\ flight.pc = "csv"
    /\ flight' = [flight EXCEPT !.pc = "close",
                                !.sent = Append(@, "write_to_csv")]
    /\ UNCHANGED <<svars, xbox, avp>>

\* Lines 315-316 and close() of mocap_thread.py: _stay_open is cleared and
\* the mocap log written; run_flight_test returns.
FlightCloseMocap ==
    /\ flight.pc = "close"
    /\ flight' = [flight EXCEPT !.pc = "end", !._stay_open = FALSE,
                                !.sent = Append(@, "mocap.close"),
                                !.ended = "returned"]
    /\ UNCHANGED <<svars, xbox, avp>>

\* run() of mocap_thread.py, lines 33-44: the loop test finds _stay_open
\* set and one more frame is waited for, sent and logged.
MocapFrame ==
    /\ flight.pc # "off"
    /\ flight.alive
    /\ flight._stay_open
    /\ flight.frames < MaxFrames
    /\ flight' = [flight EXCEPT !.frames = @ + 1]
    /\ UNCHANGED <<svars, xbox, avp>>

\* run() of mocap_thread.py, line 33: the loop test finds _stay_open
\* cleared and the thread ends.
MocapExit ==
    /\ flight.pc # "off"
    /\ flight.alive
    /\ ~flight._stay_open
    /\ flight' = [flight EXCEPT !.alive = FALSE]
    /\ UNCHANGED <<svars, xbox, avp>>

NextFlight ==
    \/ FlightCall
    \/ FlightSetParam
    \/ FlightSetParamRaises
    \/ FlightResetEstimator
    \/ FlightAddLogConfig
    \/ FlightStartLogging
    \/ FlightLogSetupRaises
    \/ FlightUserStart
    \/ FlightUserEnds
    \/ FlightEStop
    \/ FlightStop
    \/ FlightDisarm
    \/ FlightUsdLoggingOff
    \/ FlightWriteCsv
    \/ FlightCloseMocap
    \/ MocapFrame
    \/ MocapExit

SpecFlight == InitFlight /\ [][NextFlight]_vars

\* ------------------------------------------------------------- Xbox360Controller
\* Calls of read followed in one behaviour.
MaxReads == 3

\* The buttons followed: Xbox360Controller.A and Xbox360Controller.B.
A == 0
B == 1
Buttons == {A, B}

\* What the joystick reports of a button: released or pressed.
ButtonValues == {0, 1}

\* The test firing whenever the button is down.
Pressed_while_down(prev, value) == value = 1

\* The test of line 94.
Pressed(prev, value) == prev = 0 /\ value = 1

\* The controller as constructed (lines 51-52), with the history of its
\* reads: no callback, no previous value.
InitXbox ==
    /\ graph = <<>>
    /\ rods = <<>>
    /\ flap_params = <<>>
    /\ leader = NONE
    /\ send_graph_dict = <<>>
    /\ InitIdle
    /\ InitExtras
    /\ flight = NoFlight
    /\ avp = NoAVP
    /\ xbox = [is_open |-> TRUE,
               button_press_callbacks |-> {},
               button_prevs |-> <<>>,
               added |-> {},
               reads |-> <<>>]

\* Lines 167-168: the callback of button b is stored and its previous
\* value set to 0. `added` keeps the buttons this was done for since the
\* last read.
add_button_press_callback(b) ==
    /\ xbox.is_open
    /\ Len(xbox.reads) < MaxReads
    /\ xbox' = [xbox EXCEPT
           !.button_press_callbacks = @ \cup {b},
           !.button_prevs = [x \in (DOMAIN @) \cup {b} |->
                                 IF x = b THEN 0 ELSE @[x]],
           !.added = @ \cup {b}]
    /\ UNCHANGED <<svars, flight, avp>>

\* Lines 85-110 as far as they are about buttons: the joystick reports
\* button_values; the callback of every button with a callback is called
\* when the test of line 94 holds; then the previous value of every button
\* that has one becomes its value in this read. The read is kept with the
\* callbacks it called.
read(button_values) ==
    /\ xbox.is_open
    /\ Len(xbox.reads) < MaxReads
    /\ xbox' = [xbox EXCEPT
           !.button_prevs = [x \in DOMAIN @ |-> button_values[x]],
           !.added = {},
           !.reads = Append(@,
               [button_values |-> button_values,
                callbacks |-> xbox.button_press_callbacks,
                added |-> xbox.added,
                called |-> {b \in xbox.button_press_callbacks :
                               Pressed(xbox.button_prevs[b], button_values[b])}])]
    /\ UNCHANGED <<svars, flight, avp>>

NextXbox ==
    \/ \E b \in Buttons : add_button_press_callback(b)
    \/ \E v \in [Buttons -> ButtonValues] : read(v)

SpecXbox == InitXbox /\ [][NextXbox]_vars

\* ------------------------------------------------------------- AVP
\* Time is counted in tenths of a second and velocity in tenths of a metre
\* per second. The loop sleeps 0.01 s in each iteration (line 59), and the
\* two assignments of index follow each other at once: the clock is let
\* advance by a tenth only when the running loop has been through the test
\* of line 56 since the last advance (`ran`) and no POST is half handled.

\* Tenths of a second followed in one behaviour.
MaxTicks == 7

\* The 0.5 s of line 56.
Timeout == 5

\* The 3.0 of line 31, and the heights the leader is reported at.
Ceiling == 3
Heights == {Ceiling - 1, Ceiling}

\* time.time() when the AVP is constructed: later than last_updated = 0 of
\* line 16 by more than the 0.5 s.
StartTime == Timeout + 1

\* The gestures POSTed: three the loop knows and one it does not.
PostedGestures == {"Forward", "RollLeft", "Up", "Wave"}

\* Lines 29-50: the velocity of a gesture, multiplied by 0.5.
Velocity(gesture) ==
    LET vx == CASE gesture = "RollRight" -> 10
                [] gesture = "RollLeft" -> -10
                [] OTHER -> 0
        vy == CASE gesture = "Forward" -> 10
                [] gesture = "Backward" -> -10
                [] OTHER -> 0
        vz == CASE gesture = "Up" -> 10
                [] gesture = "Down" -> -10
                [] OTHER -> 0
    IN <<(vx * 5) \div 10, (vy * 5) \div 10, (vz * 5) \div 10>>

\* The test of line 56.
TimedOut(now, last_updated) == now - last_updated > Timeout

\* The AVP as constructed (lines 13-17), its thread not started; `post` is
\* the position of index, `posted` the time its line 71 last ran,
\* `setpoint` the last setpoint sent with the age the POST had then.
InitAVP ==
    /\ graph = <<>>
    /\ rods = <<>>
    /\ flap_params = <<>>
    /\ leader = NONE
    /\ send_graph_dict = <<>>
    /\ InitIdle
    /\ InitExtras
    /\ flight = NoFlight
    /\ xbox = NoXbox
    /\ avp = [is_open |-> FALSE, gesture |-> "", last_updated |-> 0,
              height |-> 0, pc |-> "new", post |-> "idle", posted |-> 0,
              now |-> StartTime, ran |-> FALSE, setpoint |-> <<>>]

\* Lines 62-64: open.
AvpOpen ==
    /\ avp.pc = "new"
    /\ avp' = [avp EXCEPT !.is_open = TRUE, !.pc = "top"]
    /\ UNCHANGED <<svars, flight, xbox>>

\* Lines 66-67: close.
AvpClose ==
    /\ avp.is_open
    /\ avp' = [avp EXCEPT !.is_open = FALSE]
    /\ UNCHANGED <<svars, flight, xbox>>

\* Lines 28-53: the loop test holds; at or above the ceiling the gesture
\* becomes "Down"; the velocity of the gesture is sent.
AvpSend ==
    /\ avp.pc = "top"
    /\ avp.is_open
    /\ LET g == IF avp.height >= Ceiling THEN "Down" ELSE avp.gesture
       IN avp' = [avp EXCEPT
              !.gesture = g,
              !.setpoint = [v |-> Velocity(g), age |-> avp.now - avp.posted,
                            height |-> avp.height],
              !.pc = "check"]
    /\ UNCHANGED <<svars, flight, xbox>>

\* Line 28: the loop test fails and run ends.
AvpLoopExit ==
    /\ avp.pc = "top"
    /\ ~avp.is_open
    /\ avp' = [avp EXCEPT !.pc = "ended"]
    /\ UNCHANGED <<svars, flight, xbox>>

\* Line 56: the test of the timeout.
AvpCheck ==
    /\ avp.pc = "check"
    /\ avp' = [avp EXCEPT !.pc = IF TimedOut(avp.now, avp.last_updated)
                                 THEN "clear" ELSE "sleep",
                           !.ran = TRUE]
    /\ UNCHANGED <<svars, flight, xbox>>

\* Line 57: the gesture is cleared.
AvpClear ==
    /\ avp.pc = "clear"
    /\ avp' = [avp EXCEPT !.gesture = "", !.pc = "sleep"]
    /\ UNCHANGED <<svars, flight, xbox>>

\* Lines 59-60: the sleep; the iteration is over.
AvpSleep ==
    /\ avp.pc = "sleep"
    /\ avp' = [avp EXCEPT !.pc = "top"]
    /\ UNCHANGED <<svars, flight, xbox>>

\* Line 71, in the thread of the web server: a POST with a gesture.
IndexGesture(g) ==
    /\ avp.post = "idle"
    /\ avp' = [avp EXCEPT !.gesture = g, !.posted = avp.now, !.post = "stamp"]
    /\ UNCHANGED <<svars, flight, xbox>>

\* Line 72: the time of the POST is kept.
IndexStamp ==
    /\ avp.post = "stamp"
    /\ avp' = [avp EXCEPT !.last_updated = avp.now, !.post = "idle"]
    /\ UNCHANGED <<svars, flight, xbox>>

\* Lines 79-80: update_leader_position.
UpdateLeaderPosition(z) ==
    /\ avp.height # z
    /\ avp' = [avp EXCEPT !.height = z]
    /\ UNCHANGED <<svars, flight, xbox>>

\* A tenth of a second passes.
AvpTick ==
    /\ avp.now < StartTime + MaxTicks
    /\ avp.post = "idle"
    /\ avp.pc \in {"top", "check", "clear", "sleep"} => avp.ran
    /\ avp' = [avp EXCEPT !.now = @ + 1, !.ran = FALSE]
    /\ UNCHANGED <<svars, flight, xbox>>

NextAVP ==
    \/ AvpOpen
    \/ AvpClose
    \/ AvpSend
    \/ AvpLoopExit
    \/ AvpCheck
    \/ AvpClear
    \/ AvpSleep
    \/ \E g \in PostedGestures : IndexGesture(g)
    \/ IndexStamp
    \/ \E z \in Heights : UpdateLeaderPosition(z)
    \/ AvpTick

SpecAVP == InitAVP /\ [][NextAVP]_vars

\* ------------------------------------------------------------- reading the history
ParentIn(s, n) == _get_parent(s.graph, n)
RodIn(s, n) == _get_rod(s.graph, s.rods, n)
FlapIn(s, n) == _get_flap_params(s.graph, s.flap_params, n)

\* A call has returned and none is in progress; LastCall is its argument.
Returned == pc = "idle" /\ calls # <<>>
LastCall == calls[Len(calls)]
\* The call that returned last was for a node that was not the leader.
Reversed == Returned /\ LastCall # _find_leader(pre.graph)
\* The path the last call reversed: its argument first, the old leader last.
ReversedPath == PathToLeader(pre.graph, LastCall)

\* ------------------------------------------------------------- claims

\* C1: between calls of set_leader the graph has exactly one self-parenting
\* node, and following parent pointers from every node reaches it.
C1_SingleLeaderNoCycle == pc = "idle" => ValidTopology(graph)

C1_Witness ==
    /\ Returned
    /\ Len(calls) = 2
    /\ calls[1] # _find_leader(orig.graph)
    /\ Len(ReversedPath) = 3

\* C2: when set_leader(n) has returned, _find_leader gives n, n is its own
\* parent and no other node is self-parenting.
C2_LeaderIsArgument ==
    Returned => /\ _find_leader(graph) = LastCall
                /\ ParentIn(Snapshot, LastCall) = LastCall
                /\ SelfParents(graph) = {LastCall}

C2_Witness ==
    /\ Reversed
    /\ _find_leader(graph) = LastCall
    /\ _find_leader(pre.graph) # LastCall
    /\ Len(ReversedPath) = 2

\* C3: after set_leader reversed the path p0, ..., pk, every p(i) with
\* i >= 1 has p(i-1) as parent and, as rod, the negation of the rod p(i-1)
\* held before the call.
C3_RodShiftedAndNegated ==
    Reversed =>
        \A i \in 2..Len(ReversedPath) :
            /\ ParentIn(Snapshot, ReversedPath[i]) = ReversedPath[i - 1]
            /\ RodIn(Snapshot, ReversedPath[i]) =
                   [k \in 1..3 |-> -RodIn(pre, ReversedPath[i - 1])[k]]

\* The example of the specification: {1:1, 2:1, 3:2}, rod(2) = [1,0,0],
\* rod(3) = [0,1,0], set_leader(3).
C3_Witness ==
    /\ Reversed
    /\ LastCall = 3
    /\ ReversedPath = <<3, 2, 1>>
    /\ RodIn(pre, 2) = <<1, 0, 0>>
    /\ RodIn(pre, 3) = <<0, 1, 0>>
    /\ ParentIn(Snapshot, 2) = 3
    /\ RodIn(Snapshot, 2) = <<0, -1, 0>>
    /\ ParentIn(Snapshot, 1) = 2
    /\ RodIn(Snapshot, 1) = <<-1, 0, 0>>

\* C4: after set_leader reversed the path p0, ..., pk, the flap of every
\* p(i) with i >= 1 is the flap p(i-1) held before the call with the
\* amplitude negated and frequency and phase as they were.
C4_FlapShiftedAmplitudeNegated ==
    Reversed =>
        \A i \in 2..Len(ReversedPath) :
            FlapIn(Snapshot, ReversedPath[i]) =
                << FlapIn(pre, ReversedPath[i - 1])[1],
                   -FlapIn(pre, ReversedPath[i - 1])[2],
                   FlapIn(pre, ReversedPath[i - 1])[3] >>

C4_Witness ==
    /\ Reversed
    /\ Len(ReversedPath) = 3
    /\ FlapIn(pre, ReversedPath[1]) = <<25, 3, 5>>
    /\ FlapIn(Snapshot, ReversedPath[2]) = <<25, -3, 5>>
    /\ FlapIn(pre, ReversedPath[2]) = <<10, 2, 0>>
    /\ FlapIn(Snapshot, ReversedPath[3]) = <<10, -2, 0>>

\* C5: after set_leader(L) for a node L that was not the leader, the rod
\* of L is [0,0,0] and the flap amplitude of L is 0.
C5_NewLeaderHoldsSentinel ==
    Reversed => /\ RodIn(Snapshot, LastCall) = <<0, 0, 0>>
                /\ FlapIn(Snapshot, LastCall)[2] = 0

\* C6: set_leader(n) with n the current leader changes no parent, rod or
\* flap.
C6_LeaderCallChangesNothing ==
    (Returned /\ LastCall = _find_leader(pre.graph)) => Snapshot = pre

C6_Witness ==
    /\ Returned
    /\ Len(calls) = 2
    /\ calls[1] # _find_leader(orig.graph)
    /\ LastCall = _find_leader(pre.graph)
    /\ RodIn(Snapshot, LastCall) # <<0, 0, 0>>
    /\ FlapIn(Snapshot, LastCall)[2] # 0

\* The store was built as a chain a -> b -> c with c the leader.
IsChain(a, b, c) ==
    /\ Cardinality({a, b, c}) = 3
    /\ ParentIn(orig, a) = b
    /\ ParentIn(orig, b) = c
    /\ ParentIn(orig, c) = c

\* C7: for a chain A -> B -> C with C the leader, set_leader(A) followed
\* by set_leader(C) gives each of A, B and C its original parent, rod and
\* flap amplitude back.
C7_ChainRoundTripRestoresAll ==
    \A a, b, c \in Nodes :
        (IsChain(a, b, c) /\ pc = "idle" /\ calls = <<a, c>>) =>
            \A n \in {a, b, c} :
                /\ ParentIn(Snapshot, n) = ParentIn(orig, n)
                /\ RodIn(Snapshot, n) = RodIn(orig, n)
                /\ FlapIn(Snapshot, n)[2] = FlapIn(orig, n)[2]

\* C8: after set_leader(L) for a non-leader L followed by set_leader(R)
\* for the original leader R, every node of the path from L to R other
\* than R has its original parent again, and its original rod and flap
\* amplitude.
C8_DoubleReversalRestoresChildren ==
    (/\ pc = "idle"
     /\ Len(calls) = 2
     /\ calls[1] # _find_leader(orig.graph)
     /\ calls[2] = _find_leader(orig.graph)) =>
        LET path == PathToLeader(orig.graph, calls[1])
        IN \A i \in 1..(Len(path) - 1) :
               /\ ParentIn(Snapshot, path[i]) = ParentIn(orig, path[i])
               /\ RodIn(Snapshot, path[i]) = RodIn(orig, path[i])
               /\ FlapIn(Snapshot, path[i])[2] = FlapIn(orig, path[i])[2]

C8_Witness ==
    /\ pc = "idle"
    /\ Len(calls) = 2
    /\ calls[2] = _find_leader(orig.graph)
    /\ Len(PathToLeader(orig.graph, calls[1])) = 3
    /\ RodIn(orig, calls[1]) = <<0, 1, 0>>
    /\ RodIn(Snapshot, calls[1]) = <<0, 1, 0>>
    /\ RodIn(orig, ParentIn(orig, calls[1])) = <<1, 0, 0>>
    /\ RodIn(Snapshot, ParentIn(orig, calls[1])) = <<1, 0, 0>>

\* C9: set_leader(n) for a node n that is not in the topology ends with an
\* error and leaves every parent, rod and flap as it was. A call ended by
\* an exception would be at position "raised"; leader_node is set once the
\* parent lookup of line 165 has been made, which is where an absent node
\* would have to be rejected.
C9_AbsentNodeRaises ==
    (leader_node # NONE /\ leader_node \notin NodesOf(pre.graph)) =>
        (pc = "raised" /\ Snapshot = pre)

\* C10: the walk of set_leader(n) for a node n of the topology re-points
\* the nodes of the path from n to the old leader one after the other,
\* each once, never more of them than n is deep, and ends at the old
\* leader with as many nodes re-pointed as n was deep.
C10_WalkVisitsPathOnce ==
    /\ (pc \in {"first", "loop"} /\ leader_node \in NodesOf(pre.graph)) =>
           LET path == PathToLeader(pre.graph, leader_node)
           IN /\ Len(rewritten) <= Len(path) - 1
              /\ rewritten = SubSeq(path, 2, Len(rewritten) + 1)
              /\ (pc = "loop" /\ temp1 # prev_leader_node) =>
                     Len(rewritten) < Len(path) - 1
    /\ Reversed =>
           /\ rewritten = Tail(ReversedPath)
           /\ rewritten[Len(rewritten)] = _find_leader(pre.graph)

C10_Witness ==
    /\ pc = "loop"
    /\ temp1 = prev_leader_node
    /\ Len(rewritten) = 2
    /\ rewritten = Tail(PathToLeader(pre.graph, leader_node))

\* The store t is the store s re-rooted at node n: the same nodes at the same
\* positions, n self-parenting, every other node of the path from n to the
\* old leader pointing at its former child with that child's rod and flap
\* flipped, every node off the path as it was.
RerootedFrom(s, t, n) ==
    LET path == PathToLeader(s.graph, n)
        on_path == {path[i] : i \in 1..Len(path)}
    IN /\ Len(t.graph) = Len(s.graph)
       /\ \A i \in 1..Len(s.graph) : t.graph[i][1] = s.graph[i][1]
       /\ ParentIn(t, n) = n
       /\ \A i \in 2..Len(path) :
              /\ ParentIn(t, path[i]) = path[i - 1]
              /\ RodIn(t, path[i]) = [k \in 1..3 |-> -RodIn(s, path[i - 1])[k]]
              /\ FlapIn(t, path[i]) = << FlapIn(s, path[i - 1])[1],
                                         -FlapIn(s, path[i - 1])[2],
                                         FlapIn(s, path[i - 1])[3] >>
       /\ \A m \in NodesOf(s.graph) \ on_path :
              /\ ParentIn(t, m) = ParentIn(s, m)
              /\ RodIn(t, m) = RodIn(s, m)
              /\ FlapIn(t, m) = FlapIn(s, m)

\* C11: while a call of set_leader is in progress the store (graph, rods,
\* flap_params) is either as it was when the call started or completely
\* re-rooted at the argument; it never holds anything in between.
C11_StoreNeverHalfReversed ==
    pc # "idle" => (Snapshot = pre \/ RerootedFrom(pre, Snapshot, leader_node))

\* ------------------------------------------------------------- the wire layout
\* The value of a byte read as a two's-complement signed byte.
SignedByte(b) == IF b >= 128 THEN b - 256 ELSE b

\* Node id, parent id and rod read back from a word by the layout: bits 0-3,
\* bits 4-7, and one signed byte each for bits 8-15, 16-23 and 24-31.
DecodeWord(w) ==
    << w[1] % 16, w[1] \div 16,
       << SignedByte(w[2]), SignedByte(w[3]), SignedByte(w[4]) >> >>

\* The ids fit 4 bits and the rod components a signed byte.
InWireRange(in) ==
    /\ in[1] \in 0..15
    /\ in[2] \in 0..15
    /\ \A k \in 1..3 : in[3][k] \in -128..127

\* C12: for ids in [0,15] and rod components in [-128,127] the word has
\* the node id in bits 0-3, the parent id in bits 4-7 and the rod components
\* as two's-complement bytes in bits 8-15, 16-23 and 24-31, so that reading
\* it back by this layout gives the node id, the parent id and the rod.
C12_WordLayoutRoundTrip ==
    (outcome = "returned" /\ enc_in # <<>> /\ InWireRange(enc_in)) =>
        /\ Len(enc_out) = 4
        /\ \A k \in 1..4 : enc_out[k] \in 0..255
        /\ enc_out[1] % 16 = enc_in[1]
        /\ enc_out[1] \div 16 = enc_in[2]
        /\ \A k \in 1..3 : SignedByte(enc_out[k + 1]) = enc_in[3][k]
        /\ DecodeWord(enc_out) = enc_in

C12_Witness ==
    /\ outcome = "returned"
    /\ enc_in = <<7, 15, <<-128, 127, -1>>>>
    /\ enc_out = <<247, 128, 127, 255>>

\* C13: a node or parent id above 15 or a rod component outside
\* [-128,127] is rejected with an error and no word is produced for it.
C13_OutOfRangeRejected ==
    (outcome # "none" /\ enc_in # <<>> /\ ~InWireRange(enc_in)) =>
        (outcome = "raised" /\ enc_out = NoList)

\* What the store says Crazyflie n is to be sent: the word packing n, its
\* parent and its rod, and its flap triple.
PayloadOf(n) ==
    <<ConfigWord(n, _get_parent(graph, n), _get_rod(graph, rods, n)),
      _get_flap_params(graph, flap_params, n)>>

\* What Crazyflie n holds once that payload has been set in full.
FirmwareOf(n) ==
    [config_params |-> PayloadOf(n)[1], flap_freq |-> PayloadOf(n)[2][1],
     flap_amp |-> PayloadOf(n)[2][2], flap_phase |-> PayloadOf(n)[2][3]]

\* A call of send_graph has ended, by returning or by raising.
BroadcastEnded == outcome \in {"returned", "raised"}

\* C14: send_graph pushes to every node of the topology exactly once, never
\* twice and skipping none; what it pushes to node n is the word packing
\* (n, parent of n, rod of n) with n's flap triple; and nothing but the
\* four parameters of the push is set on any Crazyflie.
C14_OnePushPerNodeWithItsPayload ==
    /\ \A n \in Nodes :
           /\ Len(pushes[n]) <= 1
           /\ Len(pushes[n]) = 1 => pushes[n][1] = PayloadOf(n)
           /\ \A f \in PushPositions :
                  fw[n][f] \in {IF f = "config_params" THEN NoList ELSE NONE,
                                PushValue(PayloadOf(n), f)}
    /\ is_root = [n \in Nodes |-> 0]
    /\ BroadcastEnded =>
           \A n \in NodesOf(graph) : Len(pushes[n]) = 1

C14_Witness ==
    /\ outcome = "returned"
    /\ \A n \in NodesOf(graph) :
           /\ pushes[n] = <<PayloadOf(n)>>
           /\ fw[n] = FirmwareOf(n)
    /\ _get_parent(graph, 3) = 2
    /\ pushes[3] = << << <<35, 0, 1, 0>>, <<25, 3, 5>> >> >>

\* C15: a push that fails stops nothing but itself. While pushes are under
\* way every node's thread not yet started can be started and every thread
\* that is running can make its next step, whichever threads have failed;
\* a thread ends as failed only by a failure of its own; and when the
\* broadcast has ended every node whose own push did not fail holds its
\* payload in full.
C15_FailureStopsOnlyItsOwnPush ==
    /\ \A n \in Nodes :
           /\ (pc = "send" /\ thread[n] = "none") => ENABLED ParallelSafeStart(n)
           /\ thread[n] \in PushPositions => ENABLED SendGraphWrite(n)
           /\ thread[n] = "failed" <=> n \in erred
    /\ BroadcastEnded =>
           \A n \in NodesOf(graph) \ erred :
               /\ thread[n] = "done"
               /\ fw[n] = FirmwareOf(n)

C15_Witness ==
    /\ outcome = "raised"
    /\ erred = {3}
    /\ fw[3].config_params = NoList
    /\ thread[3] = "failed" /\ thread[1] = "done" /\ thread[2] = "done"
    /\ \A n \in NodesOf(graph) \ {3} : fw[n] = FirmwareOf(n)

\* C16: when the broadcast ends with some pushes failed it does not raise:
\* it returns, and what it returns gives every node its outcome, failure
\* for the nodes whose push failed and success for the others.
C16_ReturnsOutcomePerNode ==
    (BroadcastEnded /\ erred # {}) =>
        /\ outcome = "returned"
        /\ result # NONE
        /\ \A n \in NodesOf(graph) :
               result[n] = IF n \in erred THEN "failure" ELSE "success"

\* C17: send_graph gives control back to its caller, returning or raising,
\* only when the push of every node has ended, in success or in failure.
C17_ReturnsAfterEveryPushEnded ==
    BroadcastEnded =>
        \A n \in NodesOf(graph) :
            /\ Len(pushes[n]) = 1
            /\ thread[n] \in {"done", "failed"}
            /\ thread[n] = "done" => fw[n] = FirmwareOf(n)

C17_Witness ==
    /\ outcome = "raised"
    /\ thread[1] = "done"
    /\ thread[2] = "failed"
    /\ fw[2].flap_freq = 10
    /\ fw[2].flap_amp = NONE
    /\ thread[3] = "done"

\* C18: whenever a call of set_leader on a node of the topology has
\* returned, no push of it having failed, every Crazyflie holds what the
\* store now says of its node: the word of its id, parent and rod, and its
\* flap triple. This includes the first call of a session and a call on
\* the node that is the leader already.
C18_FirmwareMatchesStoreAfterReturn ==
    (pc = "idle" /\ calls # <<>> /\ erred = {}) =>
        \A n \in NodesOf(graph) : fw[n] = FirmwareOf(n)

\* The flags after the k-th call of set_root.
FlagsAfter(k) == IF k < Len(root_calls) THEN root_hist[k + 1] ELSE is_root

C20_LookupRaisesOnBrokenTopology ==
    outcome # "none" =>
        /\ Snapshot = orig
        /\ IF Cardinality(SelfParents(graph)) = 1
           THEN outcome = "returned" /\ SelfParents(graph) = {result}
           ELSE outcome = "raised"

\* C21: a call of set_leader that has returned left every node off the
\* path from its argument to the old leader with the parent, rod and flap
\* it had, and left the store with the same nodes at the same positions,
\* one rod and one flap to each; while the call runs the same holds of
\* what it has written so far.
C21_OffPathNodesUntouched ==
    (calls # <<>> \/ pc \in {"first", "loop"}) =>
        LET arg == IF pc = "idle" THEN LastCall ELSE leader_node
            path == PathToLeader(pre.graph, arg)
            on_path == {path[i] : i \in 1..Len(path)}
        IN /\ Len(graph) = Len(pre.graph)
           /\ Len(rods) = Len(graph)
           /\ Len(flap_params) = Len(graph)
           /\ \A i \in 1..Len(graph) :
                  /\ graph[i][1] = pre.graph[i][1]
                  /\ Len(rods[i]) = 3
                  /\ Len(flap_params[i]) = 3
                  /\ graph[i][1] \notin on_path =>
                         /\ graph[i][2] = pre.graph[i][2]
                         /\ rods[i] = pre.rods[i]
                         /\ flap_params[i] = pre.flap_params[i]

C21_Witness ==
    /\ Reversed
    /\ LastCall = 2
    /\ ReversedPath = <<2, 1>>
    /\ ParentIn(Snapshot, 1) = 2
    /\ RodIn(Snapshot, 1) # RodIn(pre, 1)
    /\ ParentIn(pre, 3) = 1
    /\ ParentIn(Snapshot, 3) = 1
    /\ RodIn(Snapshot, 3) = RodIn(pre, 3)
    /\ FlapIn(Snapshot, 3) = FlapIn(pre, 3)

\* C22: in a call of set_leader on a node that is not the leader, no push
\* runs while the path is being reversed; when the first push is about to
\* start the store is the one of the start of the call completely re-rooted
\* at the argument, every payload handed to a thread packs the store, and
\* the store is still that re-rooted one when the call returns; and the
\* call has returned, or raised, only with every push ended.
C22_MutateThenEncodeThenPush ==
    /\ pc \in {"first", "loop"} =>
           \A n \in Nodes : thread[n] \notin PushPositions
    /\ (pc = "send" /\ leader_node # NONE) =>
           /\ (\A n \in Nodes : thread[n] = "none") =>
                  RerootedFrom(pre, Snapshot, leader_node)
           /\ \A n \in Nodes :
                  /\ Len(pushes[n]) <= 1
                  /\ Len(pushes[n]) = 1 => pushes[n][1] = PayloadOf(n)
    /\ (pc \in {"idle", "raised"} /\ send_graph_dict # <<>>) =>
           \A n \in NodesOf(graph) :
               /\ Len(pushes[n]) = 1
               /\ thread[n] \in {"done", "failed"}
    /\ (pc = "idle" /\ calls # <<>> /\ LastCall # _find_leader(pre.graph)) =>
           /\ RerootedFrom(pre, Snapshot, LastCall)
           /\ \A n \in NodesOf(graph) :
                  thread[n] = "done" /\ fw[n] = FirmwareOf(n)

C22_Witness ==
    /\ pc = "idle"
    /\ calls = <<3>>
    /\ PathToLeader(pre.graph, 3) = <<3, 2, 1>>
    /\ \A n \in NodesOf(graph) : thread[n] = "done"
    /\ fw[1].config_params[1] = 33
    /\ fw[2].config_params[1] = 50
    /\ fw[3].config_params[1] = 51
    /\ fw[2].config_params[3] = -1 % 256

\* Crazyflie n holds the first k parameters of the payload `args` and, of
\* the others, what it held when the broadcast began.
WrittenUpTo(n, args, k) ==
    \A j \in 1..Len(PushFields) :
        fw[n][PushFields[j]] = IF j <= k THEN PushValue(args, PushFields[j])
                               ELSE fw0[n][PushFields[j]]

\* C23: the push to a node sets config word, flap frequency, flap amplitude
\* and flap phase in this order and ends at the first set_value that fails:
\* a node not yet pushed to holds what it held before the broadcast, a
\* running push has set exactly the parameters before its position, a push
\* that is done has set all four, and a failed push has set the first k of
\* them for some k below four, so that no flap parameter of a broadcast is
\* held without its config word. (That a node can be left with the new
\* config word and the flap parameters of an earlier broadcast is the
\* witness.)
C23_FieldsInOrderStopAtFirstFailure ==
    \A n \in Nodes :
        IF Len(pushes[n]) = 0 THEN fw[n] = fw0[n]
        ELSE CASE thread[n] \in PushPositions ->
                      \E k \in 1..Len(PushFields) :
                          /\ PushFields[k] = thread[n]
                          /\ WrittenUpTo(n, pushes[n][1], k - 1)
               [] thread[n] = "done" ->
                      WrittenUpTo(n, pushes[n][1], Len(PushFields))
               [] thread[n] = "failed" ->
                      \E k \in 0..(Len(PushFields) - 1) :
                          WrittenUpTo(n, pushes[n][1], k)
               [] OTHER -> FALSE

C23_Witness ==
    /\ pc = "raised"
    /\ thread[2] = "failed"
    /\ fw0[2].config_params # NoList
    /\ fw[2].config_params = pushes[2][1][1]
    /\ fw[2].config_params # fw0[2].config_params
    /\ fw[2].flap_amp = fw0[2].flap_amp
    /\ fw[2].flap_amp # pushes[2][1][2][2]

\* What run_flight_test sends when the user function has ended with e and
\* everything after it has run.
SentAfter(e) ==
    (IF e = "returned" THEN <<"stop", "disarm">> ELSE <<"e_stop">>)
        \o <<"usd.logging=0", "write_to_csv", "mocap.close">>

C25_MocapClosedOnEveryReturn ==
    (flight.pc = "end" /\ flight.ended = "returned") =>
        /\ ~flight._stay_open
        /\ flight.sent # <<>>
        /\ flight.sent[Len(flight.sent)] = "mocap.close"

\* C26: in every read the callback of a button is called exactly when the
\* button has a callback, its value in this read is 1, and its value in
\* the read before was 0 or its callback was added since the read before
\* (or there was no read before); so a button held at 1 from one read to
\* the next has its callback called in the first of them only.
C26_ButtonCallbacksEdgeTriggered ==
    xbox.is_open =>
        \A k \in 1..Len(xbox.reads) :
            \A b \in Buttons :
                LET r == xbox.reads[k]
                IN /\ b \in r.called <=>
                          /\ b \in r.callbacks
                          /\ r.button_values[b] = 1
                          /\ \/ b \in r.added
                             \/ k > 1 /\ xbox.reads[k - 1].button_values[b] = 0
                   /\ (k > 1 /\ b \notin r.added
                            /\ xbox.reads[k - 1].button_values[b] = 1) =>
                          b \notin r.called

C26_Witness ==
    /\ Len(xbox.reads) = 3
    /\ xbox.reads[1].added = {A, B}
    /\ xbox.reads[2].added = {}
    /\ xbox.reads[3].added = {}
    /\ xbox.reads[1].button_values = [b \in Buttons |-> 1]
    /\ xbox.reads[1].called = {A, B}
    /\ xbox.reads[2].button_values = [b \in Buttons |-> IF b = A THEN 1 ELSE 0]
    /\ xbox.reads[2].called = {}
    /\ xbox.reads[3].button_values = [b \in Buttons |-> 1]
    /\ xbox.reads[3].called = {B}

\* C27: below the ceiling, a setpoint with a velocity that is not zero is
\* sent only while the last POST of a gesture is no older than the 0.5 s
\* and one iteration of the loop; and when the loop is about to start an
\* iteration with the last POST older than that, the gesture is cleared.
C27_StaleGestureCommandsNothing ==
    /\ (avp.setpoint # <<>> /\ avp.setpoint.height < Ceiling
            /\ avp.setpoint.v # <<0, 0, 0>>) =>
           avp.setpoint.age <= Timeout + 1
    /\ (avp.pc = "top" /\ avp.is_open /\ avp.post = "idle"
            /\ avp.now - avp.last_updated > Timeout + 1) =>
           avp.gesture = ""

====
